---- MODULE Spec2Model ----
(***************************************************************************)
(* Model of simpleldap (src/src/main.rs): an LDAP gateway that answers     *)
(* bind / search / whoami from a read-only sqlite table "users".           *)
(*                                                                         *)
(* Strings are sequences of one-character strings, so that the regular     *)
(* expressions, the SQL LIKE operator and format!() are computed on the    *)
(* characters and not assumed.                                             *)
(***************************************************************************)
EXTENDS Integers, Sequences, FiniteSets, TLC

(***************************************************************************)
(* Bounds of the model.                                                    *)
(***************************************************************************)
\* the largest number of rows the users table holds in a checked store
MaxRows == 3
\* the largest number of nodes of a filter tree handed to recurse_filters alone
MaxFilterNodes == 4
\* the longest string handed to check_dn_format alone
MaxDnLen == 7

(***************************************************************************)
(* Characters and string helpers.                                          *)
(***************************************************************************)
\* \w of the regex crate, restricted to the characters the model uses
WordChars ==
    {"a", "b", "c", "d", "e", "f", "g", "i", "m", "n", "o", "p", "s", "u", "x", "y",
     "A", "0", "1", "3", "9", "_"}

IsWordChar(ch) == ch \in WordChars

\* s[i..] starts with the literal lit
StartsWithAt(s, i, lit) ==
    /\ i + Len(lit) - 1 <= Len(s)
    /\ \A k \in 1..Len(lit) : s[i + k - 1] = lit[k]

\* index just after the longest run of word characters of s that starts at i
RECURSIVE WordRunEnd(_, _)
WordRunEnd(s, i) ==
    IF i <= Len(s) /\ IsWordChar(s[i]) THEN WordRunEnd(s, i + 1) ELSE i

\* `.` of the regex crate matches every character but the line feed
NoLineFeed(s, i) == \A k \in i..Len(s) : s[k] # "\n"

LitUidEq == <<"u", "i", "d", "=">>
LitComma == <<",">>
LitEq    == <<"=">>
LitDnPrefix == <<"d", "n", ":", " ">>
Sentinel == <<"%">>
Anonymous == <<"A", "n", "o", "n", "y", "m", "o", "u", "s">>

(***************************************************************************)
(* Regex ^(?:\w+=\w+,)*?(?:\w+=\w+)$ of check_dn_format.  \w+ is always    *)
(* followed by a non-word character or the end, so only the longest run    *)
(* can take part in a match and the match is deterministic.                *)
(***************************************************************************)
RECURSIVE MatchDnFrom(_, _)
MatchDnFrom(s, i) ==
    LET a == WordRunEnd(s, i)
        v == WordRunEnd(s, a + 1)
    IN  /\ a > i
        /\ StartsWithAt(s, a, LitEq)
        /\ v > a + 1
        /\ \/ v = Len(s) + 1
           \/ StartsWithAt(s, v, LitComma) /\ MatchDnFrom(s, v + 1)

\* the regex without its closing $: a well-formed prefix is enough
check_dn_format_unanchored(dn) ==
    \E n \in 1..Len(dn) : MatchDnFrom(SubSeq(dn, 1, n), 1)

\* a validator that lets every string through
check_dn_format_lenient(dn) == TRUE

check_dn_format(dn) == MatchDnFrom(dn, 1)

(***************************************************************************)
(* Regex ^uid=(\w+),.*?$ of Database::extract_uid.  The result is          *)
(* <<TRUE, uid>> for Ok(uid) and <<FALSE, <<>> >> for Err.                 *)
(***************************************************************************)
extract_uid(dn) ==
    LET e == WordRunEnd(dn, 5)
    IN  IF /\ StartsWithAt(dn, 1, LitUidEq)
           /\ e > 5
           /\ StartsWithAt(dn, e, LitComma)
           /\ NoLineFeed(dn, e + 1)
        THEN <<TRUE, SubSeq(dn, 5, e - 1)>>
        ELSE <<FALSE, <<>> >>

\* Regex ^uid=\w+,(.*?)$ of do_search, used with is_match
BaseHasUid(base) ==
    LET e == WordRunEnd(base, 5)
    IN  /\ StartsWithAt(base, 1, LitUidEq)
        /\ e > 5
        /\ StartsWithAt(base, e, LitComma)
        /\ NoLineFeed(base, e + 1)

\* Regex uid=\w+,<base> of do_search (not anchored), used with is_match.
\* base passed check_dn_format, so it holds no regex metacharacter.
tuname_check(base, dn) ==
    \E i \in 1..Len(dn) :
        LET e == WordRunEnd(dn, i + 4)
        IN  /\ StartsWithAt(dn, i, LitUidEq)
            /\ e > i + 4
            /\ StartsWithAt(dn, e, LitComma)
            /\ StartsWithAt(dn, e + 1, base)

(***************************************************************************)
(* The two comparison operators search_user puts in the SQL text.          *)
(***************************************************************************)
\* ASCII case folding of sqlite's LIKE
Lower(ch) == IF ch = "A" THEN "a" ELSE ch

\* sqlite LIKE: % matches any run, _ any one character, letters fold case
RECURSIVE LikeFrom(_, _, _, _)
LikeFrom(pat, i, s, j) ==
    IF i > Len(pat) THEN j > Len(s)
    ELSE IF pat[i] = "%"
         THEN \E k \in j..(Len(s) + 1) : LikeFrom(pat, i + 1, s, k)
    ELSE IF j > Len(s) THEN FALSE
    ELSE IF pat[i] = "_" \/ Lower(pat[i]) = Lower(s[j])
         THEN LikeFrom(pat, i + 1, s, j + 1)
    ELSE FALSE

SqlLike(value, pat) == LikeFrom(pat, 1, value, 1)

SqlEquals(value, key) == value = key

(***************************************************************************)
(* Values the requests and the users table are drawn from.                 *)
(***************************************************************************)
DnAlice   == <<"u", "i", "d", "=", "a", ",", "o", "=", "p">>
DnBob     == <<"u", "i", "d", "=", "b", ",", "o", "=", "p">>
DnAliceUc == <<"u", "i", "d", "=", "A", ",", "o", "=", "p">>
DnUidOnly == <<"u", "i", "d", "=", "a">>
DnNested  == <<"u", "i", "d", "=", "a", ",", "u", "i", "d", "=", "b", ",", "o", "=", "p">>
DnBase    == <<"o", "=", "p">>
DnLeadingComma == <<",", "o", "=", "p">>
DnWithSpace    == <<"o", "=", " ", "p">>

WellFormedDns == {DnAlice, DnBob, DnAliceUc, DnUidOnly, DnNested, DnBase}
MalformedDns  == {DnLeadingComma, DnWithSpace}
RequestDns    == WellFormedDns \cup MalformedDns

PwAlice == <<"p", "a">>
PwBob   == <<"p", "b">>

\* hex digest of SHA-512: distinct inputs have distinct digests, and no
\* digest is its own pre-image
Sha512Hex(pw) ==
    CASE pw = PwAlice -> <<"3", "c">>
      [] pw = PwBob   -> <<"9", "f">>
      [] OTHER        -> <<"e", "0">>

\* a client may also send a stored digest as the credential
Passwords == {PwAlice, PwBob, Sha512Hex(PwAlice)}

\* one row of table users: userbase, passhash, maysearch, given name,
\* surname, email (columns 0..5 read by search_user)
Row(dn, passhash, maysearch, given, sur) ==
    [dn |-> dn, passhash |-> passhash, maysearch |-> maysearch,
     given_name |-> given, surname |-> sur, email |-> given \o <<"@">> \o sur]

AllRows ==
    << Row(DnAlice,   Sha512Hex(PwAlice), 1, <<"a">>, <<"s">>),
       Row(DnBob,     Sha512Hex(PwBob),   0, <<"b">>, <<"s">>),
       Row(DnAliceUc, Sha512Hex(PwAlice), 0, <<"A">>, <<"s">>),
       Row(DnUidOnly, Sha512Hex(PwAlice), 0, <<"a">>, <<"x">>),
       Row(DnNested,  Sha512Hex(PwBob),   0, <<"a">>, <<"b">>) >>

\* the rows with rowid in S, in rowid order
RECURSIVE RowsOf(_, _)
RowsOf(S, i) ==
    IF i > Len(AllRows) THEN <<>>
    ELSE (IF i \in S THEN <<AllRows[i]>> ELSE <<>>) \o RowsOf(S, i + 1)

\* the contents the users table may have: userbase is unique
Tables ==
    { RowsOf(S, 1) : S \in { T \in SUBSET (1..Len(AllRows)) : Cardinality(T) <= MaxRows } }

Scopes == {"Base", "OneLevel", "Subtree"}

(***************************************************************************)
(* LdapFilter: Equality, And, Or and every other kind.                     *)
(***************************************************************************)
AttrUid == <<"u", "i", "d">>
AttrCn  == <<"c", "n">>

Equality(attr, val) == [kind |-> "Equality", attr |-> attr, val |-> val, subs |-> <<>>]
And(subs)     == [kind |-> "And", attr |-> <<>>, val |-> <<>>, subs |-> subs]
Or(subs)      == [kind |-> "Or", attr |-> <<>>, val |-> <<>>, subs |-> subs]
Present(attr) == [kind |-> "Present", attr |-> attr, val |-> <<>>, subs |-> <<>>]
Not(sub)      == [kind |-> "Not", attr |-> <<>>, val |-> <<>>, subs |-> <<sub>>]

Filters ==
    { Equality(AttrUid, <<"a">>),
      Equality(AttrUid, <<"A">>),
      And(<<Equality(AttrCn, <<"x">>), Equality(AttrUid, <<"b">>)>>),
      Or(<<Present(AttrUid)>>),
      Equality(AttrUid, Sentinel),
      Or(<<Equality(AttrUid, Sentinel), Equality(AttrUid, <<"a">>)>>) }

RECURSIVE recurse_filters(_)
RECURSIVE FirstRecovered(_, _)
\* a loop that gives up after its first child
FirstRecovered_first_only(subs, i) ==
    IF i > Len(subs) THEN Sentinel ELSE recurse_filters(subs[i])

\* the loop of the And and Or arms: the first child result that is not "%"
FirstRecovered(subs, i) ==
    IF i > Len(subs) THEN Sentinel
    ELSE LET res == recurse_filters(subs[i])
         IN  IF res # Sentinel THEN res ELSE FirstRecovered(subs, i + 1)

recurse_filters(fltr) ==
    CASE fltr.kind = "Equality" ->
             IF fltr.attr = AttrUid THEN fltr.val ELSE Sentinel
      [] fltr.kind = "And" -> FirstRecovered(fltr.subs, 1)
      [] fltr.kind = "Or" -> FirstRecovered(fltr.subs, 1)
      [] OTHER -> Sentinel

(***************************************************************************)
(* Database::search_user.  fault is what sqlite does with this query:      *)
(* "none", "open" (open_with_flags fails), "prepare" (prepare fails),      *)
(* "bind" (binding the parameter fails) or "step" (cursor.next() fails,    *)
(* and its unwrap() panics).                                               *)
(***************************************************************************)
Faults == {"none", "open", "prepare", "bind", "step"}

\* the comparison the SQL text holds for this scope
Selects(scope, value, search) ==
    IF scope = "Subtree" THEN SqlLike(value, search) ELSE SqlEquals(value, search)

\* the loop over the cursor: rows whose uid cannot be extracted are skipped
RECURSIVE CollectUsers(_, _, _, _)
CollectUsers(tbl, i, search, scope) ==
    IF i > Len(tbl) THEN <<>>
    ELSE LET ln == tbl[i]
             uid == extract_uid(ln.dn)
         IN  (IF Selects(scope, ln.dn, search) /\ uid[1]
              THEN << [uid |-> uid[2], dn |-> ln.dn, passhash |-> ln.passhash,
                       maysearch |-> ln.maysearch, given_name |-> ln.given_name,
                       surname |-> ln.surname, email |-> ln.email] >>
              ELSE <<>>)
             \o CollectUsers(tbl, i + 1, search, scope)

search_user(tbl, search, scope, fault) ==
    CASE fault = "open" ->
             [status |-> "Err", err |-> "Unable to open filepath", users |-> <<>>]
      [] fault = "prepare" ->
             [status |-> "Err", err |-> "Unable to create prepare statement", users |-> <<>>]
      [] fault = "bind" ->
             [status |-> "Err", err |-> "Unable to fill prepared statement with data",
              users |-> <<>>]
      [] fault = "step" ->
             [status |-> "Panic", err |-> "", users |-> <<>>]
      [] OTHER ->
             [status |-> "Ok", err |-> "", users |-> CollectUsers(tbl, 1, search, scope)]

\* the entry the query writes in the log of store accesses
Query(search, scope, fault) == [search |-> search, scope |-> scope, fault |-> fault]

(***************************************************************************)
(* Result records handed to the codec (ldap3_server gen_* helpers).        *)
(***************************************************************************)
Msg(op, code, text, dn, attrs) ==
    [op |-> op, code |-> code, text |-> text, dn |-> dn, attrs |-> attrs]

BindResponse(code, text) == Msg("BindResponse", code, text, <<>>, <<>>)
SearchResultDone(code, text) == Msg("SearchResultDone", code, text, <<>>, <<>>)
WhoamiResponse(value) == Msg("ExtendedResponse", "Success", "", value, <<>>)
DisconnectionNotice == Msg("ExtendedResponse", "Other", "Internal Server Error", <<>>, <<>>)

Attribute(atype, val) == [atype |-> atype, vals |-> <<val>>]

\* the synthetic entry of one UserDef (do_search, lines 263-291)
SearchResultEntry(user) ==
    Msg("SearchResultEntry", "", "", user.dn,
        << Attribute("objectClass", <<"u", "s", "e", "r", "s">>),
           Attribute("cn", user.given_name \o <<" ">> \o user.surname),
           Attribute("uid", user.uid),
           Attribute("givenName", user.given_name),
           Attribute("surname", user.surname),
           Attribute("email", user.email) >>)

\* what a handler hands back: the messages to write, the session it leaves,
\* the store accesses it made, and whether the task panicked
Outcome(msgs, sess, queries, panic) ==
    [msgs |-> msgs, session |-> sess, queries |-> queries, panic |-> panic]

(***************************************************************************)
(* LdapSession::do_bind                                                    *)
(***************************************************************************)
\* do_bind looking its DN up with the pattern match
BindScope_subtree == "Subtree"

\* the scope do_bind passes to search_user

BindScope == "Base"

\* index of the first user whose passhash is passhex, 0 when there is none
RECURSIVE FirstMatch(_, _, _)
FirstMatch(users, i, passhex) ==
    IF i > Len(users) THEN 0
    ELSE IF users[i].passhash = passhex THEN i
    ELSE FirstMatch(users, i + 1, passhex)

\* lines 160-163: the session a matching user leaves
BoundSession(sess, user) ==
    [dn |-> user.dn,
     maysearch |-> IF user.maysearch > 0 THEN TRUE ELSE sess.maysearch]

\* a refusal that tells an unknown DN from a wrong credential
NoMatchResponse_tells(users) ==
    IF Len(users) = 0 THEN BindResponse("NoSuchObject", "")
    ELSE BindResponse("InvalidCredentials", "")

\* lines 168-169: the answer when no returned user matches
NoMatchResponse(users) == BindResponse("InvalidCredentials", "")

do_bind(sess, dn, pw, tbl, fault) ==
    IF ~check_dn_format(dn)
    THEN Outcome(<<BindResponse("InvalidAttributeSyntax", "Bind string non-conformant")>>,
                 sess, <<>>, FALSE)
    ELSE LET found == search_user(tbl, dn, BindScope, fault)
             log == <<Query(dn, BindScope, fault)>>
             passhex == Sha512Hex(pw)
             m == FirstMatch(found.users, 1, passhex)
         IN  CASE found.status = "Panic" -> Outcome(<<>>, sess, log, TRUE)
               [] found.status = "Err" ->
                      Outcome(<<BindResponse("OperationsError", found.err)>>, sess, log, FALSE)
               [] OTHER ->
                      IF m > 0
                      THEN Outcome(<<BindResponse("Success", "")>>,
                                   BoundSession(sess, found.users[m]), log, FALSE)
                      ELSE Outcome(<<NoMatchResponse(found.users)>>, sess, log, FALSE)

(***************************************************************************)
(* LdapSession::do_search                                                  *)
(***************************************************************************)
\* lines 223-236: the search key
SearchKey(base, fltr) ==
    IF BaseHasUid(base) THEN base
    ELSE LitUidEq \o recurse_filters(fltr) \o LitComma \o base

\* lines 223-236: whether the results are checked against uid=\w+,<base>
perform_tuname_check(base, fltr) ==
    ~BaseHasUid(base) /\ recurse_filters(fltr) = Sentinel

\* a search without the authorization filter
Visible_all(sess, user) == TRUE

\* line 259: the rows a session may see

Visible(sess, user) == sess.maysearch \/ sess.dn = user.dn

\* lines 253-292: the loop over the users found
RECURSIVE Entries(_, _, _, _, _)
Entries(sess, users, i, base, check) ==
    IF i > Len(users) THEN <<>>
    ELSE LET user == users[i]
         IN  (IF (check => tuname_check(base, user.dn)) /\ Visible(sess, user)
              THEN <<SearchResultEntry(user)>>
              ELSE <<>>)
             \o Entries(sess, users, i + 1, base, check)

\* a search that leaves the session able to search, as &mut self allows
do_search_elevates(sess, base, scope, fltr, tbl, fault) ==
    IF ~check_dn_format(base)
    THEN Outcome(<<SearchResultDone("InvalidAttributeSyntax", "Search string non-conformant")>>,
                 sess, <<>>, FALSE)
    ELSE LET search == SearchKey(base, fltr)
             found == search_user(tbl, search, scope, fault)
             log1 == <<Query(search, scope, fault)>>
         IN  CASE found.status = "Panic" -> Outcome(<<>>, sess, log1, TRUE)
               [] found.status = "Err" ->
                      Outcome(<<SearchResultDone("Other", "Internal Server Error")>>,
                              sess, log1, FALSE)
               [] OTHER ->
                      Outcome(Entries(sess, found.users, 1, base,
                                      perform_tuname_check(base, fltr))
                                  \o <<SearchResultDone("Success", "")>>,
                              [sess EXCEPT !.maysearch = TRUE], log1, FALSE)

do_search(sess, base, scope, fltr, tbl, fault) ==
    IF ~check_dn_format(base)
    THEN Outcome(<<SearchResultDone("InvalidAttributeSyntax", "Search string non-conformant")>>,
                 sess, <<>>, FALSE)
    ELSE LET search == SearchKey(base, fltr)
             found == search_user(tbl, search, scope, fault)
             log == <<Query(search, scope, fault)>>
         IN  CASE found.status = "Panic" -> Outcome(<<>>, sess, log, TRUE)
               [] found.status = "Err" ->
                      Outcome(<<SearchResultDone("Other", "Internal Server Error")>>,
                              sess, log, FALSE)
               [] OTHER ->
                      Outcome(Entries(sess, found.users, 1, base,
                                      perform_tuname_check(base, fltr))
                                  \o <<SearchResultDone("Success", "")>>,
                              sess, log, FALSE)

(***************************************************************************)
(* LdapSession::do_whoami                                                  *)
(***************************************************************************)
\* a whoami that resets the session, as &mut self allows
do_whoami_resets(sess) ==
    Outcome(<<WhoamiResponse(LitDnPrefix \o sess.dn)>>,
            [dn |-> Anonymous, maysearch |-> FALSE], <<>>, FALSE)

do_whoami(sess) == Outcome(<<WhoamiResponse(LitDnPrefix \o sess.dn)>>, sess, <<>>, FALSE)

(***************************************************************************)
(* handle_client: one connection.                                          *)
(***************************************************************************)
VARIABLES
    table,      \* rows of table users in database.sqlite (never written)
    conn,       \* where the task is: "read" (awaiting reqs.next()), "write"
                \* (sending result), "closed" (returned) or "panicked"
    session,    \* LdapSession of the connection: dn, maysearch
    request,    \* server_op: the operation being answered
    response,   \* result: the messages to write for it, in order
    queries,    \* the store accesses made for it, in order
    before,     \* the session as it was when that operation started
    bound_req,  \* the DN asked for by the latest bind answered with success
    call,       \* a function evaluated on its own: its name and argument
    ret,        \* the value that evaluation returned
    tasks,      \* the handle_client tasks the acceptor spawned, by connection
    arrived,    \* the requests the client has sent on the connection, in order
    log,        \* the requests read so far, each with what its handler did
    wire        \* the messages written to the connection, in order

vars == <<table, conn, session, request, response, queries, before, bound_req,
          call, ret, tasks, arrived, log, wire>>

\* the variables of the one connection followed in detail
connvars == <<table, conn, session, request, response, queries, before, bound_req>>

\* the variables only the other specifications of this module move
fnvars == <<call, ret>>
streamvars == <<arrived, log, wire>>

NoCall == [fn |-> "none", arg |-> <<>>, done |-> FALSE]

FnIdle == call = NoCall /\ ret = <<>>
TasksIdle == tasks = <<>>
StreamIdle == arrived = <<>> /\ log = <<>> /\ wire = <<>>

NoRequest == [op |-> "None", dn |-> <<>>, pw |-> <<>>, scope |-> "", filter |-> Present(<<>>)]
BindRequest(dn, pw) == [op |-> "Bind", dn |-> dn, pw |-> pw, scope |-> "", filter |-> Present(<<>>)]
SearchRequest(base, scope, fltr) ==
    [op |-> "Search", dn |-> base, pw |-> <<>>, scope |-> scope, filter |-> fltr]
WhoamiRequest == [op |-> "Whoami", dn |-> <<>>, pw |-> <<>>, scope |-> "", filter |-> Present(<<>>)]
UnbindRequest == [op |-> "Unbind", dn |-> <<>>, pw |-> <<>>, scope |-> "", filter |-> Present(<<>>)]
Undecodable == [op |-> "Undecodable", dn |-> <<>>, pw |-> <<>>, scope |-> "", filter |-> Present(<<>>)]

\* lines 308-311
Init ==
    /\ table \in Tables
    /\ conn = "read"
    /\ session = [dn |-> Anonymous, maysearch |-> FALSE]
    /\ request = NoRequest
    /\ response = <<>>
    /\ queries = <<>>
    /\ before = session
    /\ bound_req = Anonymous
    /\ FnIdle /\ TasksIdle /\ StreamIdle

\* lines 326-334: the handler ran; its result is about to be written.  A
\* panic of the handler unwinds the task.
Handled(req, out) ==
    /\ request' = req
    /\ before' = session
    /\ session' = out.session
    /\ response' = out.msgs
    /\ queries' = out.queries
    /\ conn' = IF out.panic THEN "panicked" ELSE "write"
    /\ UNCHANGED table

Succeeded(out) == out.msgs # <<>> /\ out.msgs[1].code = "Success"

SimpleBind(dn, pw, fault) ==
    /\ conn = "read"
    /\ LET out == do_bind(session, dn, pw, table, fault)
       IN  /\ Handled(BindRequest(dn, pw), out)
           /\ bound_req' = IF Succeeded(out) THEN dn ELSE bound_req
    /\ UNCHANGED <<fnvars, tasks, streamvars>>

Search(base, scope, fltr, fault) ==
    /\ conn = "read"
    /\ Handled(SearchRequest(base, scope, fltr),
               do_search(session, base, scope, fltr, table, fault))
    /\ UNCHANGED bound_req
    /\ UNCHANGED <<fnvars, tasks, streamvars>>

Whoami ==
    /\ conn = "read"
    /\ Handled(WhoamiRequest, do_whoami(session))
    /\ UNCHANGED bound_req
    /\ UNCHANGED <<fnvars, tasks, streamvars>>

\* the locals of one turn of the loop are dropped
EndTurn(to) ==
    /\ conn' = to
    /\ request' = NoRequest
    /\ response' = <<>>
    /\ queries' = <<>>
    /\ before' = session
    /\ UNCHANGED <<table, session, bound_req>>

\* lines 336-345: every message sent and flushed, back to reqs.next()
Flush ==
    /\ conn = "write"
    /\ EndTurn("read")
    /\ UNCHANGED <<fnvars, tasks, streamvars>>

\* lines 337-339, 342-344: send or flush fails, the task returns
WriteFails ==
    /\ conn = "write"
    /\ EndTurn("closed")
    /\ UNCHANGED <<fnvars, tasks, streamvars>>

\* lines 329-332: no answer, the task returns
Unbind ==
    /\ conn = "read"
    /\ request' = UnbindRequest
    /\ before' = session
    /\ response' = <<>>
    /\ queries' = <<>>
    /\ conn' = "closed"
    /\ UNCHANGED <<table, session, bound_req>>
    /\ UNCHANGED <<fnvars, tasks, streamvars>>

\* lines 314-324: a message that is no supported operation; the notice is
\* sent and the task returns
DecodeError ==
    /\ conn = "read"
    /\ request' = Undecodable
    /\ before' = session
    /\ response' = <<DisconnectionNotice>>
    /\ queries' = <<>>
    /\ conn' = "closed"
    /\ UNCHANGED <<table, session, bound_req>>
    /\ UNCHANGED <<fnvars, tasks, streamvars>>

\* line 313: reqs.next() yields None, the client went away
ClientGone ==
    /\ conn = "read"
    /\ EndTurn("closed")
    /\ UNCHANGED <<fnvars, tasks, streamvars>>

Next ==
    \/ \E dn \in RequestDns, pw \in Passwords, fault \in Faults : SimpleBind(dn, pw, fault)
    \/ \E base \in RequestDns, scope \in Scopes, fltr \in Filters, fault \in Faults :
           Search(base, scope, fltr, fault)
    \/ Whoami
    \/ Flush
    \/ WriteFails
    \/ Unbind
    \/ DecodeError
    \/ ClientGone

Spec == Init /\ [][Next]_vars

(***************************************************************************)
(* Vocabulary of the properties.                                           *)
(***************************************************************************)
\* the handler of the request ran to its end and its result is being written
Answered(op) == conn = "write" /\ request.op = op

\* the handler of the request ran, to its end or into a panic
Ran(op) == conn \in {"write", "panicked"} /\ request.op = op

\* the store answered the one query the operation made
StoreAnswered == Len(queries) = 1 /\ queries[1].fault = "none"

\* the store failed the one query the operation made
StoreFailed == Len(queries) = 1 /\ queries[1].fault # "none"

RowIds == 1..Len(table)

\* row r of the table carries the requested DN and the digest of the credential
Matches(r, dn, pw) == table[r].dn = dn /\ table[r].passhash = Sha512Hex(pw)

IsEntry(m) == m.op = "SearchResultEntry"

IsSuccessDone(m) == m.op = "SearchResultDone" /\ m.code = "Success"

\* the positions of the result entries in the response
EntryIds == { i \in 1..Len(response) : IsEntry(response[i]) }

\* "uid=<uid>,<base>"
UidUnder(uid, base) == LitUidEq \o uid \o LitComma \o base

(***************************************************************************)
(* C1.  Right after a bind answered with success by matching row r, the    *)
(* session is BoundAs(r.dn, r.maysearch # 0), whatever it held before.     *)
(***************************************************************************)
C1_BindOverwritesSession ==
    (Answered("Bind") /\ response[1].code = "Success")
        => \E r \in RowIds :
               /\ Matches(r, request.dn, request.pw)
               /\ session = [dn |-> table[r].dn, maysearch |-> table[r].maysearch # 0]

(***************************************************************************)
(* C2.  For a well-formed DN d and a store that answers, bind(d, p) is     *)
(* answered with success iff a row has DN d and the digest of p, and with  *)
(* invalid-credentials otherwise.                                          *)
(***************************************************************************)
C2_BindIffRowMatches ==
    (Ran("Bind") /\ request.dn \in WellFormedDns /\ StoreAnswered)
        => /\ Len(response) = 1
           /\ IF \E r \in RowIds : Matches(r, request.dn, request.pw)
              THEN response[1].code = "Success"
              ELSE response[1].code = "InvalidCredentials"

(***************************************************************************)
(* C3.  A search handled while maysearch is false returns no entry whose   *)
(* DN is not the session's DN.                                             *)
(***************************************************************************)
C3_NonPrivilegedSeesOnlyOwn ==
    (Ran("Search") /\ ~before.maysearch)
        => \A i \in EntryIds : response[i].dn = before.dn

\* a non-privileged search whose query selected another identity's row and
\* that returned the session's own entry
C3_Witness ==
    /\ Answered("Search")
    /\ ~before.maysearch
    /\ StoreAnswered
    /\ EntryIds # {}
    /\ \E r \in RowIds :
           /\ table[r].dn # before.dn
           /\ extract_uid(table[r].dn)[1]
           /\ Selects(request.scope, table[r].dn, queries[1].search)

(***************************************************************************)
(* C4.  Privileged session, base B without leading uid component, filter   *)
(* yielding uid U: for every scope the answer is the one entry of the row  *)
(* with DN "uid=U,B" and the success marker when that row is stored, and   *)
(* the success marker alone when it is not.                                *)
(***************************************************************************)
C4_RecoveredUidIsExactLookup ==
    (/\ Ran("Search")
     /\ before.maysearch
     /\ request.dn \in WellFormedDns
     /\ ~BaseHasUid(request.dn)
     /\ recurse_filters(request.filter) # Sentinel
     /\ StoreAnswered)
        => LET key == UidUnder(recurse_filters(request.filter), request.dn)
           IN  IF \E r \in RowIds : table[r].dn = key
               THEN /\ Len(response) = 2
                    /\ IsEntry(response[1]) /\ response[1].dn = key
                    /\ IsSuccessDone(response[2])
               ELSE /\ Len(response) = 1
                    /\ IsSuccessDone(response[1])

(***************************************************************************)
(* C5.  When the base itself matches uid=<word>,<rest>, the filter is      *)
(* ignored and the lookup is an exact match on the base for every scope:   *)
(* any other filter gives the same answer, and every entry returned has    *)
(* the base as its DN.                                                     *)
(***************************************************************************)
C5_UidBaseIsExactLookup ==
    (/\ Ran("Search")
     /\ request.dn \in WellFormedDns
     /\ BaseHasUid(request.dn)
     /\ StoreAnswered)
        => /\ \A f \in Filters :
                  do_search(before, request.dn, request.scope, f, table, "none").msgs
                      = response
           /\ \A i \in EntryIds : response[i].dn = request.dn

(***************************************************************************)
(* C6.  A search is answered either with zero or more entries followed by  *)
(* exactly one success marker, the last message, or with exactly one error *)
(* message and no entry; a search that matches no row is answered with the *)
(* success marker alone.                                                   *)
(***************************************************************************)
C6_SearchResponseShape ==
    Ran("Search")
        => /\ Len(response) >= 1
           /\ \/ /\ IsSuccessDone(response[Len(response)])
                 /\ \A i \in 1..(Len(response) - 1) : IsEntry(response[i])
              \/ /\ Len(response) = 1
                 /\ response[1].op = "SearchResultDone"
                 /\ response[1].code # "Success"
           /\ (StoreAnswered /\ ~\E r \in RowIds :
                   Selects(request.scope, table[r].dn, queries[1].search))
                  => (Len(response) = 1 /\ IsSuccessDone(response[1]))

(***************************************************************************)
(* C7.  A bind DN or search base that fails the DN grammar is answered     *)
(* with invalid-attribute-syntax, no store query is made for the operation *)
(* and the session is left as it was.                                      *)
(***************************************************************************)
C7_MalformedDnRejectedBeforeStore ==
    ((Ran("Bind") \/ Ran("Search")) /\ request.dn \in MalformedDns)
        => /\ conn = "write"
           /\ Len(response) = 1
           /\ response[1].code = "InvalidAttributeSyntax"
           /\ response[1].op = (IF request.op = "Bind" THEN "BindResponse"
                                                        ELSE "SearchResultDone")
           /\ queries = <<>>
           /\ session = before

\* a search with a malformed base was rejected on a session that is bound
C7_Witness ==
    /\ Answered("Search")
    /\ request.dn = DnWithSpace
    /\ before.dn # Anonymous
    /\ response[1].code = "InvalidAttributeSyntax"

(***************************************************************************)
(* C8.  When the store cannot be opened or a query fails, the bind or      *)
(* search in progress is answered with operations-error, the connection    *)
(* goes on and the session is unchanged.                                   *)
(***************************************************************************)
C8_StoreFailureIsOperationsError ==
    ((Ran("Bind") \/ Ran("Search")) /\ StoreFailed)
        => /\ conn = "write"
           /\ Len(response) = 1
           /\ response[1].code = "OperationsError"
           /\ session = before

(***************************************************************************)
(* C9.  A failed bind does not tell whether the identity exists: the       *)
(* answer and the session left by bind(d, p) are the same in a store with  *)
(* no row of DN d and in a store whose row of DN d has another digest, and *)
(* the answer is invalid-credentials.                                      *)
(***************************************************************************)
\* table tbl holds no row of DN dn
DnAbsent(tbl, dn) == \A r \in 1..Len(tbl) : tbl[r].dn # dn

\* table tbl holds a row of DN dn, and each such row has another digest than pw's
DnWithOtherDigest(tbl, dn, pw) ==
    /\ \E r \in 1..Len(tbl) : tbl[r].dn = dn
    /\ \A r \in 1..Len(tbl) : tbl[r].dn = dn => tbl[r].passhash # Sha512Hex(pw)

C9_FailedBindHidesExistence ==
    (/\ Ran("Bind")
     /\ request.dn \in WellFormedDns
     /\ Len(queries) = 1
     /\ DnAbsent(table, request.dn) \/ DnWithOtherDigest(table, request.dn, request.pw))
        => /\ StoreAnswered
               => /\ conn = "write"
                  /\ Len(response) = 1
                  /\ response[1].code = "InvalidCredentials"
           /\ \A other \in Tables :
                  (DnAbsent(other, request.dn)
                      \/ DnWithOtherDigest(other, request.dn, request.pw))
                  => LET out == do_bind(before, request.dn, request.pw, other,
                                        queries[1].fault)
                     IN  /\ out.msgs = response
                         /\ out.session = session
                         /\ out.panic = (conn = "panicked")

\* a bind refused for a DN that is stored with another digest, on a session
\* already bound
C9_Witness ==
    /\ Answered("Bind")
    /\ StoreAnswered
    /\ DnWithOtherDigest(table, request.dn, request.pw)
    /\ extract_uid(request.dn)[1]
    /\ before.dn # Anonymous
    /\ response[1].code = "InvalidCredentials"

(***************************************************************************)
(* C10.  whoami answers "dn: " followed by the DN asked for by the latest  *)
(* bind answered with success, or "dn: Anonymous" when there was none, and *)
(* makes no store query.                                                   *)
(***************************************************************************)
C10_WhoamiTellsLastBoundDn ==
    Ran("Whoami")
        => /\ conn = "write"
           /\ response = <<WhoamiResponse(LitDnPrefix \o bound_req)>>
           /\ queries = <<>>

\* whoami answered after a successful bind
C10_Witness ==
    /\ Answered("Whoami")
    /\ bound_req = DnBob
    /\ response[1].dn = LitDnPrefix \o DnBob

(***************************************************************************)
(* The two pure functions of LdapSession evaluated on their own:           *)
(* recurse_filters on every filter tree of up to MaxFilterNodes nodes and  *)
(* check_dn_format on every string of up to MaxDnLen characters.           *)
(***************************************************************************)
FilterLeaves ==
    { Equality(AttrUid, <<"a">>), Equality(AttrUid, <<"b">>),
      Equality(AttrUid, Sentinel), Equality(AttrCn, <<"a">>) }

RECURSIVE TreesOfSize(_)
RECURSIVE ForestsOfSize(_)
\* the sequences of trees that have n nodes in all
ForestsOfSize(n) ==
    IF n = 0 THEN {<<>>}
    ELSE UNION { { <<t>> \o f : t \in TreesOfSize(k), f \in ForestsOfSize(n - k) } :
                 k \in 1..n }

\* the filter trees of exactly n nodes
TreesOfSize(n) ==
    IF n = 1 THEN FilterLeaves \cup {And(<<>>), Or(<<>>)}
    ELSE { And(f) : f \in ForestsOfSize(n - 1) }
         \cup { Or(f) : f \in ForestsOfSize(n - 1) }
         \cup { Not(t) : t \in TreesOfSize(n - 1) }

FilterTrees == UNION { TreesOfSize(n) : n \in 1..MaxFilterNodes }

DnAlphabet == {"a", "=", ",", " "}

RECURSIVE StringsUpTo(_)
StringsUpTo(n) ==
    IF n = 0 THEN {<<>>}
    ELSE LET shorter == StringsUpTo(n - 1)
         IN  shorter \cup { Append(str, ch) : str \in shorter, ch \in DnAlphabet }

\* strings with the other kinds of word character: digit, underscore, capital
OtherWordDns ==
    { <<"_", "=", "a", ",", "a", "=", "_">>,
      <<"a", "_", "1", "=", "A", "0">>,
      <<"_", "=">>,
      <<"1", "=", "_", ",">> }

DnStrings == StringsUpTo(MaxDnLen) \cup OtherWordDns

FnCall(fn, arg) == [fn |-> fn, arg |-> arg, done |-> FALSE]

ConnIdle ==
    /\ table = <<>>
    /\ conn = "closed"
    /\ session = [dn |-> Anonymous, maysearch |-> FALSE]
    /\ request = NoRequest
    /\ response = <<>>
    /\ queries = <<>>
    /\ before = session
    /\ bound_req = Anonymous

InitFn ==
    /\ ConnIdle /\ TasksIdle /\ StreamIdle
    /\ call \in { FnCall("recurse_filters", f) : f \in FilterTrees }
                \cup { FnCall("check_dn_format", str) : str \in DnStrings }
    /\ ret = <<>>

\* line 229: let tuname = self.recurse_filters(&lsr.filter)
EvalRecurseFilters ==
    /\ call.fn = "recurse_filters" /\ ~call.done
    /\ ret' = recurse_filters(call.arg)
    /\ call' = [call EXCEPT !.done = TRUE]
    /\ UNCHANGED <<connvars, tasks, streamvars>>

\* lines 137, 206: self.check_dn_format(..), Ok(b)
EvalCheckDnFormat ==
    /\ call.fn = "check_dn_format" /\ ~call.done
    /\ ret' = check_dn_format(call.arg)
    /\ call' = [call EXCEPT !.done = TRUE]
    /\ UNCHANGED <<connvars, tasks, streamvars>>

NextFn == EvalRecurseFilters \/ EvalCheckDnFormat

SpecFn == InitFn /\ [][NextFn]_vars

Returned(fn) == call.fn = fn /\ call.done

(***************************************************************************)
(* C11.  recurse_filters returns the value of the first Equality node of   *)
(* attribute uid met depth-first, left to right, descending through And    *)
(* and Or only; it returns "%" only when there is no such node.            *)
(***************************************************************************)
RECURSIVE UidValues(_)
RECURSIVE UidValuesOfAll(_, _)
\* the values of the uid equalities of the trees subs[i..], in traversal order
UidValuesOfAll(subs, i) ==
    IF i > Len(subs) THEN <<>>
    ELSE UidValues(subs[i]) \o UidValuesOfAll(subs, i + 1)

\* the values of the uid equalities the traversal of fltr meets, in order
UidValues(fltr) ==
    IF fltr.kind = "Equality"
    THEN (IF fltr.attr = AttrUid THEN <<fltr.val>> ELSE <<>>)
    ELSE IF fltr.kind \in {"And", "Or"} THEN UidValuesOfAll(fltr.subs, 1)
    ELSE <<>>

\* the claim as made: the first value met, whatever it is ("%" included),
\* and "%" when none is met
C11_FirstUidEqualityWins ==
    Returned("recurse_filters")
        => LET met == UidValues(call.arg)
           IN  ret = (IF met = <<>> THEN Sentinel ELSE met[1])

\* C11 as amended: the first value met that is not "%"; "%" when every
\* value met is "%" or none is met
C11_FirstUidEqualityNotSentinelWins ==
    Returned("recurse_filters")
        => LET named == SelectSeq(UidValues(call.arg), LAMBDA v : v # Sentinel)
           IN  ret = (IF named = <<>> THEN Sentinel ELSE named[1])

\* a tree whose traversal meets uid=% first and then uid=b below a nested
\* node, and for which "b" was returned
C11_Witness ==
    /\ Returned("recurse_filters")
    /\ UidValues(call.arg) = <<Sentinel, <<"b">>>>
    /\ \E i \in 1..Len(call.arg.subs) : call.arg.subs[i].kind \in {"And", "Or"}
    /\ ret = <<"b">>

(***************************************************************************)
(* C12.  check_dn_format accepts every string (attr=value,)*attr=value     *)
(* whose attrs and values are non-empty runs of word characters, and       *)
(* rejects every string that holds a space, starts with a comma or has an  *)
(* empty component (empty attr, empty value, two adjacent commas, a        *)
(* trailing comma).                                                        *)
(***************************************************************************)
\* the components of str: the runs between its commas
RECURSIVE Components(_)
Components(str) ==
    IF \A k \in 1..Len(str) : str[k] # ","
    THEN <<str>>
    ELSE LET k == CHOOSE j \in 1..Len(str) :
                      str[j] = "," /\ \A h \in 1..(j - 1) : str[h] # ","
         IN  <<SubSeq(str, 1, k - 1)>> \o Components(SubSeq(str, k + 1, Len(str)))

\* comp is attr=value with attr and value non-empty runs of word characters
IsAttrValue(comp) ==
    \E k \in 2..(Len(comp) - 1) :
        /\ comp[k] = "="
        /\ \A j \in (1..Len(comp)) \ {k} : IsWordChar(comp[j])

IsDnForm(str) ==
    \A i \in 1..Len(Components(str)) : IsAttrValue(Components(str)[i])

\* comp is empty, or its attr or its value is
HasEmptyPart(comp) == comp = <<>> \/ comp[1] = "=" \/ comp[Len(comp)] = "="

C12_DnGrammar ==
    Returned("check_dn_format")
        => LET str == call.arg
           IN  /\ IsDnForm(str) => ret
               /\ (\E k \in 1..Len(str) : str[k] = " ") => ~ret
               /\ (str # <<>> /\ str[1] = ",") => ~ret
               /\ (\E i \in 1..Len(Components(str)) : HasEmptyPart(Components(str)[i]))
                      => ~ret

\* a DN of two components, with underscores, was accepted
C12_Witness ==
    /\ Returned("check_dn_format")
    /\ call.arg = <<"_", "=", "a", ",", "a", "=", "_">>
    /\ ret

(***************************************************************************)
(* C15.  On the wildcard path (base without leading uid component, no uid  *)
(* from the filter) every entry returned has a DN of exactly the form      *)
(* uid=<word>,<base>: a direct child of the base.                          *)
(***************************************************************************)
\* dn is "uid=" followed by one run of word characters, a comma and base
IsDirectChild(dn, base) ==
    LET e == WordRunEnd(dn, 5)
    IN  /\ StartsWithAt(dn, 1, LitUidEq)
        /\ e > 5
        /\ dn = UidUnder(SubSeq(dn, 5, e - 1), base)

C15_WildcardReturnsDirectChildren ==
    (/\ Ran("Search")
     /\ request.dn \in WellFormedDns
     /\ ~BaseHasUid(request.dn)
     /\ recurse_filters(request.filter) = Sentinel)
        => \A i \in EntryIds : IsDirectChild(response[i].dn, request.dn)

(***************************************************************************)
(* C16.  A search with scope oneLevel returns the same result sequence as  *)
(* the same search with scope subtree.                                     *)
(***************************************************************************)
C16_OneLevelSameAsSubtree ==
    (Ran("Search") /\ request.scope = "OneLevel" /\ Len(queries) = 1)
        => do_search(before, request.dn, "Subtree", request.filter, table,
                     queries[1].fault).msgs = response

(***************************************************************************)
(* C17.  No step but a bind answered with success changes the session's    *)
(* identity or maysearch flag.                                             *)
(***************************************************************************)
C17_OnlySuccessfulBindChangesSession ==
    [][session' # session
          => /\ request'.op = "Bind"
             /\ Len(response') = 1
             /\ response'[1].code = "Success"]_vars

\* a bind refused for a wrong credential on a session bound as a privileged
\* identity, which is still that identity
C17_Witness ==
    /\ Answered("Bind")
    /\ response[1].code = "InvalidCredentials"
    /\ before = [dn |-> DnAlice, maysearch |-> TRUE]
    /\ session = before

(***************************************************************************)
(* C18.  While no bind has been answered with success on the connection,   *)
(* no search returns a result entry.                                       *)
(***************************************************************************)
C18_AnonymousSeesNothing ==
    (Ran("Search") /\ bound_req = Anonymous)
        => /\ before = [dn |-> Anonymous, maysearch |-> FALSE]
           /\ EntryIds = {}

\* an anonymous search whose query found users, answered with the success
\* marker alone
C18_Witness ==
    /\ Answered("Search")
    /\ bound_req = Anonymous
    /\ StoreAnswered
    /\ Len(search_user(table, queries[1].search, request.scope, "none").users) > 1
    /\ perform_tuname_check(request.dn, request.filter)
    /\ response = <<SearchResultDone("Success", "")>>

(***************************************************************************)
(* One connection with its byte stream: the client sends requests ahead    *)
(* of the answers, the loop of handle_client reads them one by one and     *)
(* writes each result message by message.                                  *)
(***************************************************************************)
MaxReqs == 4

StreamTables == { RowsOf({1, 2}, 1) }

StreamFaults == {"none", "open"}

StreamRequests ==
    { BindRequest(DnBob, PwBob),
      SearchRequest(DnBase, "Subtree", Or(<<Present(AttrUid)>>)),
      SearchRequest(DnBob, "Base", Equality(AttrUid, <<"a">>)),
      WhoamiRequest,
      Undecodable }

\* lines 326-334: the handler of a request that is answered
Dispatch(sess, req, tbl, fault) ==
    CASE req.op = "Bind" -> do_bind(sess, req.dn, req.pw, tbl, fault)
      [] req.op = "Search" -> do_search(sess, req.dn, req.scope, req.filter, tbl, fault)
      [] req.op = "Whoami" -> do_whoami(sess)

\* a loop that polls the stream before its result is written
ReadyToRead_early == conn \in {"read", "write"}

\* line 313: the loop is at reqs.next().await
ReadyToRead == conn = "read"

\* the next request of the stream, and its number
Pending == Len(log) < Len(arrived)
NextReq == arrived[Len(log) + 1]

LogEntry(req, fault, after, msgs) ==
    [req |-> req, fault |-> fault, before |-> session, after |-> after,
     msgs |-> msgs, at |-> Len(wire)]

\* the messages of the request in hand that are on the wire
Sent == Cardinality({i \in DOMAIN wire : wire[i].k = Len(log)})

InitStream == Init /\ table \in StreamTables

\* the client writes a request to the socket
Arrive(req) ==
    /\ conn \in {"read", "write"}
    /\ Len(arrived) < MaxReqs
    /\ arrived' = Append(arrived, req)
    /\ UNCHANGED <<connvars, fnvars, tasks, log, wire>>

\* lines 313, 326-334
StreamHandle(fault) ==
    /\ ReadyToRead
    /\ Pending
    /\ NextReq.op \in {"Bind", "Search", "Whoami"}
    /\ NextReq.op = "Whoami" => fault = "none"
    /\ LET out == Dispatch(session, NextReq, table, fault)
       IN  /\ Handled(NextReq, out)
           /\ bound_req' = IF NextReq.op = "Bind" /\ Succeeded(out)
                           THEN NextReq.dn ELSE bound_req
           /\ log' = Append(log, LogEntry(NextReq, fault, out.session, out.msgs))
    /\ UNCHANGED <<fnvars, tasks, arrived, wire>>

\* lines 336-340: one resp.send
StreamSend ==
    /\ conn = "write"
    /\ Sent < Len(response)
    /\ wire' = Append(wire, [k |-> Len(log), msg |-> response[Sent + 1]])
    /\ UNCHANGED <<connvars, fnvars, tasks, arrived, log>>

\* lines 342-345: resp.flush, back to reqs.next()
StreamFlush ==
    /\ conn = "write"
    /\ Sent = Len(response)
    /\ EndTurn("read")
    /\ UNCHANGED <<fnvars, tasks, streamvars>>

\* lines 337-339, 342-344
StreamWriteFails ==
    /\ conn = "write"
    /\ EndTurn("closed")
    /\ UNCHANGED <<fnvars, tasks, streamvars>>

\* lines 314-324: the notice is sent if the socket still takes it
StreamDecodeError(taken) ==
    /\ ReadyToRead
    /\ Pending
    /\ NextReq.op = "Undecodable"
    /\ request' = NextReq
    /\ before' = session
    /\ response' = <<DisconnectionNotice>>
    /\ queries' = <<>>
    /\ conn' = "closed"
    /\ log' = Append(log, LogEntry(NextReq, "none", session, <<DisconnectionNotice>>))
    /\ wire' = IF taken
               THEN Append(wire, [k |-> Len(log) + 1, msg |-> DisconnectionNotice])
               ELSE wire
    /\ UNCHANGED <<table, session, bound_req, fnvars, tasks, arrived>>

\* line 313: the stream has ended
StreamClientGone ==
    /\ ReadyToRead
    /\ ~Pending
    /\ EndTurn("closed")
    /\ UNCHANGED <<fnvars, tasks, streamvars>>

NextStream ==
    \/ \E req \in StreamRequests : Arrive(req)
    \/ \E fault \in StreamFaults : StreamHandle(fault)
    \/ StreamSend
    \/ StreamFlush
    \/ StreamWriteFails
    \/ \E taken \in BOOLEAN : StreamDecodeError(taken)
    \/ StreamClientGone

SpecStream == InitStream /\ [][NextStream]_vars

(***************************************************************************)
(* C14.  Repeating an identical search on the connection, with only other  *)
(* searches and whoami requests in between and the store unchanged and     *)
(* answering alike, yields the same sequence of result messages.           *)
(***************************************************************************)
OnlyReadsBetween(i, j) ==
    \A m \in (i + 1)..(j - 1) : log[m].req.op \in {"Search", "Whoami"}

SameSearchAgain(i, j) ==
    /\ i < j
    /\ log[i].req.op = "Search"
    /\ log[j].req = log[i].req
    /\ log[j].fault = log[i].fault
    /\ OnlyReadsBetween(i, j)

C14_SearchIdempotent ==
    \A i, j \in DOMAIN log : SameSearchAgain(i, j) => log[j].msgs = log[i].msgs

\* a search that returned an entry, then a whoami or another search, then
\* the same search again
C14_Witness ==
    \E i, j \in DOMAIN log :
        /\ SameSearchAgain(i, j)
        /\ j > i + 1
        /\ log[j].req # log[i + 1].req
        /\ Len(log[j].msgs) > 1
        /\ Len(wire) > log[j].at

(***************************************************************************)
(* C19.  Requests of one connection are handled in arrival order, one at a *)
(* time: every message of the result of request k is on the wire, in       *)
(* order, before request k+1 is read, and each handler starts from the     *)
(* session the handler before it left.                                     *)
(***************************************************************************)
\* the messages of request k among the first n messages of the wire
WrittenFor(k, n) ==
    LET part == SelectSeq(SubSeq(wire, 1, n), LAMBDA w : w.k = k)
    IN  [i \in DOMAIN part |-> part[i].msg]

C19_InArrivalOrder ==
    /\ Len(log) <= Len(arrived)
    /\ \A k \in DOMAIN log : log[k].req = arrived[k]

C19_AnsweredBeforeNextRead ==
    \A k \in DOMAIN log :
        k < Len(log)
            => /\ WrittenFor(k, log[k + 1].at) = log[k].msgs
               /\ WrittenFor(k, Len(wire)) = log[k].msgs

C19_ResponsesInRequestOrder ==
    \A i, j \in DOMAIN wire : i < j => wire[i].k <= wire[j].k

C19_SessionThreaded ==
    \A k \in DOMAIN log :
        /\ log[k].before = (IF k = 1 THEN [dn |-> Anonymous, maysearch |-> FALSE]
                            ELSE log[k - 1].after)
        /\ log[k].req.op \in {"Bind", "Search", "Whoami"}
               => LET out == Dispatch(log[k].before, log[k].req, table, log[k].fault)
                  IN  log[k].msgs = out.msgs /\ log[k].after = out.session

C19_OneAtATimeInOrder ==
    /\ C19_InArrivalOrder
    /\ C19_AnsweredBeforeNextRead
    /\ C19_ResponsesInRequestOrder
    /\ C19_SessionThreaded

\* the client sent a bind and a search in one go; the search was read after
\* the bind's answer was written and returned the entries the bind allows
C19_Witness ==
    /\ Len(log) >= 2
    /\ log[1].req.op = "Bind"
    /\ log[2].req.op = "Search"
    /\ log[1].at = 0
    /\ log[2].at = 1
    /\ wire[1].msg.code = "Success"
    /\ log[2].before.dn = DnBob
    /\ Len(log[2].msgs) > 1
    /\ Len(wire) = 1 + Len(log[2].msgs)

(***************************************************************************)
(* Several connections: the acceptor spawns one handle_client task for     *)
(* each, every task owns its session and a clone of the store handle, and  *)
(* the tasks' steps interleave.                                            *)
(***************************************************************************)
Conns == {"c1", "c2", "c3"}

ConcTables == { RowsOf({1, 2}, 1) }

ConcFaults == {"none", "open"}

ConcRequests ==
    { BindRequest(DnAlice, PwAlice),
      BindRequest(DnBob, PwBob),
      SearchRequest(DnBase, "Subtree", Or(<<Present(AttrUid)>>)),
      WhoamiRequest }

\* lines 308-311: the locals of a task that was just spawned; solo and alone
\* follow what the connection would hold and be sent if it ran alone
Fresh ==
    [conn |-> "read",
     session |-> [dn |-> Anonymous, maysearch |-> FALSE],
     request |-> NoRequest,
     response |-> <<>>,
     peer_lost |-> FALSE,
     solo |-> [dn |-> Anonymous, maysearch |-> FALSE],
     alone |-> <<>>]

NotAccepted == [Fresh EXCEPT !.conn = "none"]

\* one session for the whole process
SessionOf_shared(c) == tasks[CHOOSE d \in Conns : TRUE].session

\* lines 308, 327-333: the session a task's handlers work on is its own local
SessionOf(c) == tasks[c].session

\* a decode error the loop carries on after
AfterDecodeError_continues == "write"

\* line 323: return
AfterDecodeError == "closed"

\* some other connection was ended by an undecodable message
PeerLost(c) ==
    \E d \in Conns \ {c} :
        tasks[d].conn = "closed" /\ tasks[d].request.op = "Undecodable"

InitConc ==
    /\ table \in ConcTables
    /\ conn = "closed"
    /\ session = [dn |-> Anonymous, maysearch |-> FALSE]
    /\ request = NoRequest
    /\ response = <<>>
    /\ queries = <<>>
    /\ before = session
    /\ bound_req = Anonymous
    /\ FnIdle /\ StreamIdle
    /\ tasks = [c \in Conns |-> NotAccepted]

\* lines 351-353: accept, tokio::spawn(handle_client(..))
Accept(c) ==
    /\ tasks[c].conn = "none"
    /\ tasks' = [tasks EXCEPT ![c] = Fresh]
    /\ UNCHANGED <<connvars, fnvars, streamvars>>

\* lines 313, 326-334
TaskHandle(c, req, fault) ==
    /\ tasks[c].conn = "read"
    /\ req.op = "Whoami" => fault = "none"
    /\ LET out == Dispatch(SessionOf(c), req, table, fault)
           ref == Dispatch(tasks[c].solo, req, table, fault)
       IN  tasks' = [tasks EXCEPT ![c] =
                        [conn |-> IF out.panic THEN "panicked" ELSE "write",
                         session |-> out.session,
                         request |-> req,
                         response |-> out.msgs,
                         peer_lost |-> PeerLost(c),
                         solo |-> ref.session,
                         alone |-> ref.msgs]]
    /\ UNCHANGED <<connvars, fnvars, streamvars>>

\* the task is back at reqs.next(), or has returned
TaskTurnEnds(c, to) ==
    tasks' = [tasks EXCEPT ![c] =
                 [@ EXCEPT !.conn = to, !.request = NoRequest, !.response = <<>>,
                           !.peer_lost = FALSE, !.alone = <<>>]]

\* lines 336-345
TaskFlush(c) ==
    /\ tasks[c].conn = "write"
    /\ TaskTurnEnds(c, "read")
    /\ UNCHANGED <<connvars, fnvars, streamvars>>

\* lines 337-339, 342-344
TaskWriteFails(c) ==
    /\ tasks[c].conn = "write"
    /\ TaskTurnEnds(c, "closed")
    /\ UNCHANGED <<connvars, fnvars, streamvars>>

\* lines 329-332
TaskUnbind(c) ==
    /\ tasks[c].conn = "read"
    /\ tasks' = [tasks EXCEPT ![c] =
                    [@ EXCEPT !.conn = "closed", !.request = UnbindRequest,
                              !.response = <<>>, !.alone = <<>>]]
    /\ UNCHANGED <<connvars, fnvars, streamvars>>

\* lines 314-324
TaskDecodeError(c) ==
    /\ tasks[c].conn = "read"
    /\ tasks' = [tasks EXCEPT ![c] =
                    [@ EXCEPT !.conn = AfterDecodeError, !.request = Undecodable,
                              !.response = <<DisconnectionNotice>>,
                              !.alone = <<DisconnectionNotice>>]]
    /\ UNCHANGED <<connvars, fnvars, streamvars>>

\* line 313
TaskClientGone(c) ==
    /\ tasks[c].conn = "read"
    /\ TaskTurnEnds(c, "closed")
    /\ UNCHANGED <<connvars, fnvars, streamvars>>

NextConc ==
    \E c \in Conns :
        \/ Accept(c)
        \/ \E req \in ConcRequests, fault \in ConcFaults : TaskHandle(c, req, fault)
        \/ TaskFlush(c)
        \/ TaskWriteFails(c)
        \/ TaskUnbind(c)
        \/ TaskDecodeError(c)
        \/ TaskClientGone(c)

SpecConc == InitConc /\ [][NextConc]_vars

(***************************************************************************)
(* C13.  Sessions are isolated across connections: a step of one           *)
(* connection leaves every other connection's session as it was, and each  *)
(* connection holds the session and is sent the result it would have if    *)
(* it ran alone against the same table.                                    *)
(***************************************************************************)
Live(c) == tasks[c].conn \in {"read", "write"}

AsIfAlone ==
    \A c \in Conns :
        /\ tasks[c].session = tasks[c].solo
        /\ Live(c) => tasks[c].response = tasks[c].alone

OneConnectionMoves ==
    \A c, d \in Conns :
        (c # d /\ tasks'[c] # tasks[c]) => tasks'[d] = tasks[d]

C13_SessionsIsolated == []AsIfAlone /\ [][OneConnectionMoves]_vars

\* one connection is bound as the privileged identity while another, bound
\* as a non-privileged one, is sent its own entry only and a third is still
\* anonymous
C13_Witness ==
    \E c, d, e \in Conns :
        /\ tasks[c].session = [dn |-> DnAlice, maysearch |-> TRUE]
        /\ tasks[d].session = [dn |-> DnBob, maysearch |-> FALSE]
        /\ tasks[d].request.op = "Search"
        /\ Len(tasks[d].response) = 2
        /\ tasks[d].response[1].dn = DnBob
        /\ tasks[e].request.op = "Whoami"
        /\ tasks[e].response = <<WhoamiResponse(LitDnPrefix \o Anonymous)>>

(***************************************************************************)
(* C20.  An undecodable message ends its connection only: at most one      *)
(* disconnection notice is sent, the connection handles nothing more, the  *)
(* other connections keep their sessions and are still served.  An unbind  *)
(* ends the connection with no response message.                           *)
(***************************************************************************)
Over(c) == tasks[c].conn \in {"closed", "panicked"}

Served(d) ==
    /\ tasks[d].conn = "read" => ENABLED TaskHandle(d, WhoamiRequest, "none")
    /\ tasks[d].conn = "write" => ENABLED TaskFlush(d)
    /\ tasks[d].conn = "none" => ENABLED Accept(d)

FatalToItsConnectionOnly ==
    \A c \in Conns :
        /\ tasks[c].request.op = "Undecodable"
               => /\ tasks[c].conn = "closed"
                  /\ tasks[c].response = <<DisconnectionNotice>>
                  /\ \A d \in Conns \ {c} : Served(d)
        /\ tasks[c].request.op = "Unbind"
               => /\ tasks[c].conn = "closed"
                  /\ tasks[c].response = <<>>

EndsOnlyItself ==
    \A c \in Conns :
        /\ Over(c) => tasks'[c] = tasks[c]
        /\ (~Over(c) /\ tasks'[c].request.op \in {"Undecodable", "Unbind"})
               => \A d \in Conns \ {c} : tasks'[d] = tasks[d]

C20_DecodeErrorEndsOneConnection ==
    []FatalToItsConnectionOnly /\ [][EndsOnlyItself]_vars

\* a connection bound as some identity was ended by an undecodable message;
\* after that another connection bound and was sent entries by a search
C20_Witness ==
    \E c, d \in Conns :
        /\ tasks[c].request.op = "Undecodable"
        /\ tasks[c].session.dn = DnBob
        /\ tasks[d].peer_lost
        /\ tasks[d].request.op = "Search"
        /\ tasks[d].session.dn = DnAlice
        /\ Len(tasks[d].response) = 3

====
